---- MODULE Spec2Model ----
(***************************************************************************)
(* A model of package xgen's utility layer (utils.go): the built-in type  *)
(* table and its per-language lookup, one-hop base-type resolution over a  *)
(* list of schema declarations, the namespace-prefix helpers, reflective   *)
(* dispatch to generator methods, schema fetching, and the file-system     *)
(* helpers GetFileList and PrepareOutputDir.                               *)
(*                                                                         *)
(* Go strings are TLA+ strings; a Go nil error is the string "nil".  Each  *)
(* component has its own variables and its own specification; the other    *)
(* components' variables stay at their idle values.                        *)
(***************************************************************************)
EXTENDS Integers, Sequences, FiniteSets, TLC

VARIABLES
    lk,        \* getBuildInTypeByLang: the call's arguments and results
    rs,        \* getBasefromSimpleType: the call's arguments and result
    nsq,       \* getNSPrefix and trimNSPrefix: the argument and the results
    receiver,  \* callFuncByName: the generator value, its methods by name
    calls,     \* callFuncByName: the method calls made so far, in order
    inv,       \* callFuncByName: the last call's arguments and result
    server,    \* fetchSchema: what the network answers for each URL
    gets,      \* fetchSchema: the number of GET requests issued so far
    ft,        \* fetchSchema: the last call's argument and results
    fs,        \* the file system: the kind of entry at each path
    fop        \* GetFileList / PrepareOutputDir: the last call and its results

lookupVars   == <<lk>>
resolveVars  == <<rs>>
nsVars       == <<nsq>>
dispatchVars == <<receiver, calls, inv>>
fetchVars    == <<server, gets, ft>>
fsVars       == <<fs, fop>>

vars == <<lk, rs, nsq, receiver, calls, inv, server, gets, ft, fs, fop>>

NilErr == "nil"

\* The least element of a non-empty set of numbers.
Min(S) == CHOOSE i \in S : \A j \in S : i <= j

(***************************************************************************)
(* BuildInTypes (utils.go:60-110): XSD name -> the five native spellings,  *)
(* in the order Go, TypeScript, C, Java, Rust.  A Go slice index i is the  *)
(* tuple index i + 1 here.                                                 *)
(***************************************************************************)
BuildInTypes ==
    "anyType"             :> <<"string", "string", "char", "String", "char">>
 @@ "ENTITIES"            :> <<"[]string", "Array<string>", "char[]", "List<String>", "Vec<char>">>
 @@ "ENTITY"              :> <<"string", "string", "char", "String", "char">>
 @@ "ID"                  :> <<"string", "string", "char", "String", "char">>
 @@ "IDREF"               :> <<"string", "string", "char", "String", "char">>
 @@ "IDREFS"              :> <<"[]string", "Array<string>", "char[]", "List<String>", "Vec<char>">>
 @@ "NCName"              :> <<"string", "string", "char", "String", "char">>
 @@ "NMTOKEN"             :> <<"string", "string", "char", "String", "char">>
 @@ "NMTOKENS"            :> <<"[]string", "Array<string>", "char[]", "List<String>", "Vec<char>">>
 @@ "NOTATION"            :> <<"[]string", "Array<string>", "char[]", "List<String>", "Vec<char>">>
 @@ "Name"                :> <<"string", "string", "char", "String", "char">>
 @@ "QName"               :> <<"xml.Name", "any", "char", "String", "char">>
 @@ "anyURI"              :> <<"string", "string", "char", "QName", "char">>
 @@ "base64Binary"        :> <<"[]byte", "Array<any>", "char[]", "List<Byte>", "Vec<u8>">>
 @@ "boolean"             :> <<"bool", "boolean", "bool", "Boolean", "bool">>
 @@ "byte"                :> <<"byte", "any", "char[]", "Byte", "&[u8]">>
 @@ "date"                :> <<"time.Time", "string", "char", "Byte", "&[u8]">>
 @@ "dateTime"            :> <<"time.Time", "string", "char", "Byte", "&[u8]">>
 @@ "decimal"             :> <<"float64", "number", "float", "Float", "f64">>
 @@ "double"              :> <<"float64", "number", "float", "Float", "f64">>
 @@ "duration"            :> <<"string", "string", "char", "String", "char">>
 @@ "float"               :> <<"float", "number", "float", "Float", "usize">>
 @@ "gDay"                :> <<"time.Time", "string", "char", "String", "char">>
 @@ "gMonth"              :> <<"time.Time", "string", "char", "String", "char">>
 @@ "gMonthDay"           :> <<"time.Time", "string", "char", "String", "char">>
 @@ "gYear"               :> <<"time.Time", "string", "char", "String", "char">>
 @@ "gYearMonth"          :> <<"time.Time", "string", "char", "String", "char">>
 @@ "hexBinary"           :> <<"[]byte", "Array<any>", "char[]", "List<Byte>", "Vec<u8>">>
 @@ "int"                 :> <<"int", "number", "int", "Integer", "isize">>
 @@ "integer"             :> <<"int", "number", "int", "Integer", "isize">>
 @@ "language"            :> <<"string", "string", "char", "String", "char">>
 @@ "long"                :> <<"int64", "number", "int", "Long", "i64">>
 @@ "negativeInteger"     :> <<"int", "number", "int", "Integer", "isize">>
 @@ "nonNegativeInteger"  :> <<"int", "number", "int", "Integer", "isize">>
 @@ "normalizedString"    :> <<"string", "string", "char", "String", "char">>
 @@ "nonPositiveInteger"  :> <<"int", "number", "int", "Integer", "isize">>
 @@ "positiveInteger"     :> <<"int", "number", "int", "Integer", "isize">>
 @@ "short"               :> <<"int16", "number", "int", "Integer", "i16">>
 @@ "string"              :> <<"string", "string", "char", "String", "char">>
 @@ "time"                :> <<"time.Time", "string", "char", "String", "char">>
 @@ "token"               :> <<"string", "string", "char", "String", "char">>
 @@ "unsignedByte"        :> <<"byte", "any", "char", "Byte", "&[u8]">>
 @@ "unsignedInt"         :> <<"uint32", "number", "unsigned int", "Integer", "u32">>
 @@ "unsignedLong"        :> <<"uint64", "number", "unsigned int", "Long", "u64">>
 @@ "unsignedShort"       :> <<"uint16", "number", "unsigned int", "Short", "u16">>
 @@ "xml:lang"            :> <<"string", "string", "char", "String", "char">>
 @@ "xml:space"           :> <<"string", "string", "char", "String", "char">>
 @@ "xml:base"            :> <<"string", "string", "char", "String", "char">>
 @@ "xml:id"              :> <<"string", "string", "char", "String", "char">>

\* The names the table has an entry for.  BuildInTypeNames_Missing is the
\* table with one entry dropped.
BuildInTypeNames_Missing == DOMAIN BuildInTypes \ {"xml:id"}

BuildInTypeNames == DOMAIN BuildInTypes

\* supportLang with two of its indexes exchanged.
supportLang_Swapped ==
    "Go" :> 0 @@ "TypeScript" :> 1 @@ "C" :> 3 @@ "Java" :> 2 @@ "Rust" :> 4

\* The local map supportLang of getBuildInTypeByLang (utils.go:113-119).
supportLang ==
    "Go" :> 0 @@ "TypeScript" :> 1 @@ "C" :> 2 @@ "Java" :> 3 @@ "Rust" :> 4

\* Indexing a Go map[string]int: the value of a present key, and the zero
\* value 0 of a key that is absent (utils.go:124, supportLang[lang]).
GoMapIndexInt(m, k) == IF k \in DOMAIN m THEN m[k] ELSE 0

\* getBuildInTypeByLang(value, lang) (buildType, ok)  (utils.go:112-126).
getBuildInTypeByLang(value, lang) ==
    IF value \notin BuildInTypeNames
    THEN [buildType |-> "", ok |-> FALSE]
    ELSE [buildType |-> BuildInTypes[value][GoMapIndexInt(supportLang, lang) + 1],
          ok        |-> TRUE]

\* The names and languages the lookup is called with: every key of the
\* table, some names that are no key, the five languages and some others.
LookupNames == BuildInTypeNames \cup {"not-a-type", "Foo", ""}
LookupLangs == DOMAIN supportLang \cup {"Python", "go", ""}

LookupIdle == [value |-> "", lang |-> "", buildType |-> "", ok |-> FALSE, done |-> FALSE]

LookupInit ==
    \E value \in LookupNames, lang \in LookupLangs :
        lk = [value |-> value, lang |-> lang, buildType |-> "", ok |-> FALSE,
              done |-> FALSE]

Lookup ==
    /\ ~lk.done
    /\ LET r == getBuildInTypeByLang(lk.value, lk.lang)
       IN  lk' = [lk EXCEPT !.buildType = r.buildType, !.ok = r.ok, !.done = TRUE]
    /\ UNCHANGED <<resolveVars, nsVars, dispatchVars, fetchVars, fsVars>>

LookupNext == Lookup

(***************************************************************************)
(* Declarations.  The parser hands the resolver a []interface{} holding    *)
(* pointers to SimpleType, Attribute, Element and other declaration kinds  *)
(* (ComplexType stands for every kind the type switch has no case for).    *)
(***************************************************************************)
MaxDecls == 2

DeclNames == {"Foo", "Bar"}
TypeRefs  == {"string", "Bar"}

SimpleTypes ==
    [kind : {"SimpleType"}, Name : DeclNames, Base : TypeRefs,
     List : BOOLEAN, Union : BOOLEAN]
Attributes == [kind : {"Attribute"}, Name : DeclNames, Type : TypeRefs]
Elements   == [kind : {"Element"}, Name : DeclNames, Type : TypeRefs]
OtherDecls == [kind : {"ComplexType"}, Name : DeclNames]

Declarations == SimpleTypes \cup Attributes \cup Elements \cup OtherDecls

\* The declaration lists of at most n declarations.
SchemasUpTo(n) == UNION {[1..k -> Declarations] : k \in 0..n}

\* A resolver of two passes: the simple types first, and the attributes
\* and elements only when no simple type matches.
getBasefromSimpleType_TwoPass(name, XSDSchema) ==
    LET simple == {i \in 1..Len(XSDSchema) :
                      /\ XSDSchema[i].kind = "SimpleType"
                      /\ ~XSDSchema[i].List /\ ~XSDSchema[i].Union
                      /\ XSDSchema[i].Name = name}
        typed  == {i \in 1..Len(XSDSchema) :
                      /\ XSDSchema[i].kind \in {"Attribute", "Element"}
                      /\ XSDSchema[i].Name = name}
    IN  IF simple # {} THEN XSDSchema[Min(simple)].Base
        ELSE IF typed # {} THEN XSDSchema[Min(typed)].Type
        ELSE name

\* getBasefromSimpleType(name, XSDSchema): the range loop with its type
\* switch, returning at the first case whose condition holds
\* (utils.go:127-145).
RECURSIVE getBasefromSimpleType(_, _)
getBasefromSimpleType(name, XSDSchema) ==
    IF XSDSchema = << >> THEN name
    ELSE LET v == Head(XSDSchema)
         IN  IF v.kind = "SimpleType" /\ ~v.List /\ ~v.Union /\ v.Name = name
             THEN v.Base
             ELSE IF v.kind = "Attribute" /\ v.Name = name THEN v.Type
             ELSE IF v.kind = "Element" /\ v.Name = name THEN v.Type
             ELSE getBasefromSimpleType(name, Tail(XSDSchema))

ResolveIdle == [name |-> "", XSDSchema |-> << >>, base |-> "", done |-> FALSE]

ResolveInit ==
    \E name \in DeclNames, schema \in SchemasUpTo(MaxDecls) :
        rs = [name |-> name, XSDSchema |-> schema, base |-> "", done |-> FALSE]

ResolveBase ==
    /\ ~rs.done
    /\ rs' = [rs EXCEPT !.base = getBasefromSimpleType(rs.name, rs.XSDSchema),
                        !.done = TRUE]
    /\ UNCHANGED <<lookupVars, nsVars, dispatchVars, fetchVars, fsVars>>

ResolveNext == ResolveBase

(***************************************************************************)
(* Namespace helpers.                                                      *)
(***************************************************************************)
MaxStrLen == 4

Alphabet == {"a", "b", ":"}

RECURSIVE StringsUpTo(_)
StringsUpTo(n) ==
    IF n = 0 THEN {""}
    ELSE LET shorter == StringsUpTo(n - 1)
         IN  shorter \cup {s \o c : s \in shorter, c \in Alphabet}

QualifiedNames == StringsUpTo(MaxStrLen)

\* strings.Index(s, sep): the 1-based position of the first occurrence of
\* sep in s, and 0 where Go returns -1.
Index(s, sep) ==
    LET hits == {i \in 1..(Len(s) - Len(sep) + 1) :
                    SubSeq(s, i, i + Len(sep) - 1) = sep}
    IN  IF hits = {} THEN 0 ELSE Min(hits)

\* A split at the first occurrence of sep only (strings.SplitN(s, sep, 2)).
Split_FirstOnly(s, sep) ==
    LET i == Index(s, sep)
    IN  IF i = 0 THEN <<s>>
        ELSE <<SubSeq(s, 1, i - 1), SubSeq(s, i + Len(sep), Len(s))>>

\* strings.Split(s, sep) for a non-empty sep, as called at utils.go:148 and
\* utils.go:157: the substrings between the occurrences of sep, in order;
\* a string without sep gives the one-element slice holding s.
RECURSIVE Split(_, _)
Split(s, sep) ==
    LET i == Index(s, sep)
    IN  IF i = 0 THEN <<s>>
        ELSE <<SubSeq(s, 1, i - 1)>> \o Split(SubSeq(s, i + Len(sep), Len(s)), sep)

\* getNSPrefix(str) (ns)  (utils.go:147-154).
getNSPrefix(str) ==
    LET split == Split(str, ":")
    IN  IF Len(split) = 2 THEN split[1] ELSE ""

\* trimNSPrefix(str) (name)  (utils.go:156-164).
trimNSPrefix(str) ==
    LET split == Split(str, ":")
    IN  IF Len(split) = 2 THEN split[2] ELSE str

NSIdle == [str |-> "", ns |-> "", name |-> "", nsDone |-> FALSE, nameDone |-> FALSE]

NSInit == \E str \in QualifiedNames : nsq = [NSIdle EXCEPT !.str = str]

GetNSPrefix ==
    /\ ~nsq.nsDone
    /\ nsq' = [nsq EXCEPT !.ns = getNSPrefix(nsq.str), !.nsDone = TRUE]
    /\ UNCHANGED <<lookupVars, resolveVars, dispatchVars, fetchVars, fsVars>>

TrimNSPrefix ==
    /\ ~nsq.nameDone
    /\ nsq' = [nsq EXCEPT !.name = trimNSPrefix(nsq.str), !.nameDone = TRUE]
    /\ UNCHANGED <<lookupVars, resolveVars, dispatchVars, fetchVars, fsVars>>

NSNext == GetNSPrefix \/ TrimNSPrefix

(***************************************************************************)
(* Reflective dispatch.  A receiver is its method set: a function from the *)
(* names of the methods it has to what each one does when called: the      *)
(* number of results it has and, with one result, the error it returns.    *)
(***************************************************************************)
MaxCalls == 2

MethodNames   == {"OnElement", "OnAttribute"}
InvokedNames  == MethodNames \cup {"OnComplexType"}
MethodErrors  == {"e1", "e2"}
ParamLists    == {<<>>, <<"arg">>}

Methods ==
    [results : {0}, ret : {NilErr}] \cup [results : {1}, ret : {NilErr} \cup MethodErrors]

Receivers == UNION {[D -> Methods] : D \in SUBSET MethodNames}

\* A dispatcher that calls the method and drops what it returns.
callFuncByName_DropError(recv, name, params, log) ==
    IF name \in DOMAIN recv
    THEN [calls |-> Append(log, [name |-> name, params |-> params]), err |-> NilErr]
    ELSE [calls |-> log, err |-> NilErr]

\* callFuncByName(receiver, name, params) (err)  (utils.go:183-196), with
\* the log of method calls it extends: MethodByName gives a valid function
\* exactly for a method of the receiver, and function.Call runs it once.
callFuncByName(recv, name, params, log) ==
    IF name \in DOMAIN recv
    THEN LET rtLen == recv[name].results
             rt0   == recv[name].ret
         IN  [calls |-> Append(log, [name |-> name, params |-> params]),
              err   |-> IF rtLen = 0 THEN NilErr
                        ELSE IF rt0 # NilErr THEN rt0
                        ELSE NilErr]
    ELSE [calls |-> log, err |-> NilErr]

InvIdle == [name |-> "", params |-> <<>>, err |-> NilErr, before |-> <<>>, done |-> FALSE]

DispatchInit ==
    /\ receiver \in Receivers
    /\ calls = <<>>
    /\ inv = InvIdle

Invoke ==
    /\ Len(calls) < MaxCalls
    /\ \E name \in InvokedNames, params \in ParamLists :
         LET r == callFuncByName(receiver, name, params, calls)
         IN  /\ calls' = r.calls
             /\ inv' = [name |-> name, params |-> params, err |-> r.err,
                        before |-> calls, done |-> TRUE]
    /\ UNCHANGED receiver
    /\ UNCHANGED <<lookupVars, resolveVars, nsVars, fetchVars, fsVars>>

DispatchNext == Invoke

(***************************************************************************)
(* Schema fetching.  The network answers a GET either with a transport     *)
(* failure or with a response: a status, a body and the outcome of reading *)
(* the body (a read that fails has delivered some prefix of the body).     *)
(***************************************************************************)
MaxFetches == 2

StatusOK == 200

URLs == {"http://h/a.xsd", "http://h/b.xsd"}

NetworkAnswers ==
    [kind : {"fail"}, err : {"dial tcp: refused"}]
    \cup [kind : {"resp"}, status : {StatusOK, 404, 500}, payload : {"", "<s/>"},
          readErr : {NilErr, "unexpected EOF"}]

\* A fetch that reads the body whatever the status.
fetchSchema_AnyStatus(answer, n) ==
    IF answer.kind = "fail"
    THEN [body |-> "", err |-> answer.err, requests |-> 1]
    ELSE IF answer.readErr = NilErr
         THEN [body |-> answer.payload, err |-> NilErr, requests |-> 1]
         ELSE [body |-> SubSeq(answer.payload, 1, n), err |-> answer.readErr,
               requests |-> 1]

\* fetchSchema(URL) ([]byte, error)  (utils.go:214-231) against the answer
\* the network gives; n is the number of bytes a failing read delivered.
\* requests counts the calls of client.Get.
fetchSchema(answer, n) ==
    IF answer.kind = "fail"
    THEN [body |-> "", err |-> answer.err, requests |-> 1]
    ELSE IF answer.status = StatusOK
         THEN IF answer.readErr = NilErr
              THEN [body |-> answer.payload, err |-> NilErr, requests |-> 1]
              ELSE [body |-> SubSeq(answer.payload, 1, n), err |-> answer.readErr,
                    requests |-> 1]
         ELSE [body |-> "", err |-> NilErr, requests |-> 1]

FetchIdle == [url |-> "", body |-> "", err |-> NilErr, getsBefore |-> 0, done |-> FALSE]

FetchInit ==
    /\ server \in [URLs -> NetworkAnswers]
    /\ gets = 0
    /\ ft = FetchIdle

Fetch ==
    /\ gets < MaxFetches
    /\ \E url \in URLs :
         LET answer == server[url]
             reads  == IF answer.kind = "resp" /\ answer.readErr # NilErr
                       THEN 0..Len(answer.payload) ELSE {0}
         IN  \E n \in reads :
               LET r == fetchSchema(answer, n)
               IN  /\ gets' = gets + r.requests
                   /\ ft' = [url |-> url, body |-> r.body, err |-> r.err,
                             getsBefore |-> gets, done |-> TRUE]
    /\ UNCHANGED server
    /\ UNCHANGED <<lookupVars, resolveVars, nsVars, dispatchVars, fsVars>>

FetchNext == Fetch

(***************************************************************************)
(* The file system.  A path is the tuple of its components below the       *)
(* working directory (which is an ordinary directory); the empty tuple is  *)
(* the empty string.  An entry is a plain file, a directory ("dir"), a     *)
(* directory that can be read but not written ("rodir", mode 0555) or a    *)
(* directory that can be neither read nor searched ("noperm", mode 0000),  *)
(* whose contents nothing can observe.                                     *)
(***************************************************************************)
MaxDepth == 2

RootNames == {"d"}
\* The entry names below the root, in the lexical order in which
\* readDirNames returns them.
NameOrder == <<"A", "B">>
EntryNames == {NameOrder[i] : i \in 1..Len(NameOrder)}

ENOENT  == "ENOENT"
ENOTDIR == "ENOTDIR"
EACCES  == "EACCES"

EmptyPath == << >>

Paths ==
    {p \in UNION {[1..n -> RootNames \cup EntryNames] : n \in 1..MaxDepth} :
        /\ p[1] \in RootNames
        /\ \A i \in 2..Len(p) : p[i] \in EntryNames}

Kinds == {"none", "file", "dir", "rodir", "noperm"}
DirKinds == {"dir", "rodir", "noperm"}
Searchable == {"dir", "rodir"}

Parent(p) == SubSeq(p, 1, Len(p) - 1)

Kind(f, p) == IF p \in DOMAIN f THEN f[p] ELSE "none"

\* The file systems there can be: an entry lies in a directory that can be
\* searched.
FileSystemsOver(paths) ==
    {f \in [paths -> Kinds] :
        \A p \in paths : (Len(p) > 1 /\ f[p] # "none") => f[Parent(p)] \in Searchable}

\* os.Stat(path), called at utils.go:25 and utils.go:48: the error of the
\* first component that cannot be passed, else whether the entry exists.
Stat(f, path) ==
    IF path = EmptyPath THEN [err |-> ENOENT, isDir |-> FALSE]
    ELSE LET blocked == {i \in 1..(Len(path) - 1) :
                            Kind(f, SubSeq(path, 1, i)) \notin Searchable}
         IN  IF blocked # {}
             THEN LET i == Min(blocked)
                      k == Kind(f, SubSeq(path, 1, i))
                  IN  [err |-> IF k = "none" THEN ENOENT
                               ELSE IF k = "file" THEN ENOTDIR ELSE EACCES,
                       isDir |-> FALSE]
             ELSE IF Kind(f, path) = "none" THEN [err |-> ENOENT, isDir |-> FALSE]
             ELSE [err |-> NilErr, isDir |-> Kind(f, path) \in DirKinds]

\* os.IsNotExist(err), utils.go:49.
IsNotExist(err) == err = ENOENT

\* os.Mkdir(path, 0755): a new directory in a parent that can be written.
Mkdir(f, path) ==
    LET st == Stat(f, path)
        up == IF Len(path) = 1 THEN "dir" ELSE Kind(f, Parent(path))
    IN  IF st.err = NilErr THEN [fs |-> f, err |-> "EEXIST"]
        ELSE IF st.err # ENOENT THEN [fs |-> f, err |-> st.err]
        ELSE IF up = "dir" THEN [fs |-> [f EXCEPT ![path] = "dir"], err |-> NilErr]
        ELSE IF up = "rodir" THEN [fs |-> f, err |-> EACCES]
        ELSE [fs |-> f, err |-> ENOENT]

\* os.MkdirAll(path, 0755), called at utils.go:50: nothing to do for a
\* directory, an error for another entry, else the parents and then path.
RECURSIVE MkdirAll(_, _)
MkdirAll(f, path) ==
    LET st == Stat(f, path)
    IN  IF st.err = NilErr
        THEN [fs |-> f, err |-> IF st.isDir THEN NilErr ELSE ENOTDIR]
        ELSE LET up == IF Len(path) > 1 THEN MkdirAll(f, Parent(path))
                       ELSE [fs |-> f, err |-> NilErr]
             IN  IF up.err # NilErr THEN up ELSE Mkdir(up.fs, path)

\* A PrepareOutputDir that calls os.Mkdir, which makes no parents.
PrepareOutputDir_NoParents(f, path) ==
    IF path = EmptyPath THEN [fs |-> f, err |-> NilErr]
    ELSE IF IsNotExist(Stat(f, path).err) THEN Mkdir(f, path)
    ELSE [fs |-> f, err |-> NilErr]

\* PrepareOutputDir(path) error  (utils.go:44-55).
PrepareOutputDir(f, path) ==
    IF path = EmptyPath THEN [fs |-> f, err |-> NilErr]
    ELSE LET st == Stat(f, path)
         IN  IF IsNotExist(st.err)
             THEN LET made == MkdirAll(f, path)
                  IN  IF made.err # NilErr THEN [fs |-> made.fs, err |-> made.err]
                      ELSE [fs |-> made.fs, err |-> NilErr]
             ELSE [fs |-> f, err |-> NilErr]

\* readDirNames(dirname) of path/filepath: the names of the entries of a
\* directory in lexical order, or an error for a directory that cannot be
\* read.
readDirNames(f, path) ==
    IF Kind(f, path) = "noperm" THEN [names |-> << >>, err |-> EACCES]
    ELSE [names |-> SelectSeq(NameOrder,
                              LAMBDA n : Kind(f, Append(path, n)) # "none"),
          err   |-> NilErr]

\* The function literal GetFileList passes to filepath.Walk
\* (utils.go:30-33): it appends the path it is given, whatever the error
\* it is handed, and returns nil.  sawErr records that an error was handed
\* to it.
walkFn(acc, fp, err) ==
    [files  |-> Append(acc.files, fp),
     sawErr |-> acc.sawErr \/ err # NilErr,
     ret    |-> NilErr]

\* walk(path, info, walkFn) of path/filepath, which filepath.Walk
\* (utils.go:30) runs on the root: the entry itself, then for a directory
\* its entries in lexical order, each walked in turn; it stops at the first
\* error walkFn returns.  A directory that cannot be read is handed to
\* walkFn with the error; older releases of Go have by then handed it to
\* walkFn once already (twice), later ones have not.
RECURSIVE walk(_, _, _, _), walkNames(_, _, _, _, _)
walk(f, path, acc, twice) ==
    IF Kind(f, path) \notin DirKinds THEN walkFn(acc, path, NilErr)
    ELSE LET rd == readDirNames(f, path)
         IN  IF rd.err # NilErr
             THEN IF twice
                  THEN LET first == walkFn(acc, path, NilErr)
                       IN  IF first.ret # NilErr THEN first
                           ELSE walkFn(first, path, rd.err)
                  ELSE walkFn(acc, path, rd.err)
             ELSE LET first == walkFn(acc, path, NilErr)
                  IN  IF first.ret # NilErr THEN first
                      ELSE walkNames(f, path, rd.names, first, twice)

walkNames(f, path, names, acc, twice) ==
    IF names = << >> THEN acc
    ELSE LET r == walk(f, Append(path, Head(names)), acc, twice)
         IN  IF r.ret # NilErr THEN r
             ELSE walkNames(f, path, Tail(names), r, twice)

\* A GetFileList that appends path for a plain file only.
GetFileList_NoTrailingRoot(f, path, twice) ==
    LET st == Stat(f, path)
    IN  IF st.err # NilErr
        THEN [files |-> << >>, err |-> st.err, sawErr |-> FALSE]
        ELSE IF st.isDir
             THEN LET w == walk(f, path, [files |-> << >>, sawErr |-> FALSE], twice)
                  IN  [files |-> w.files, err |-> w.ret, sawErr |-> w.sawErr]
             ELSE [files |-> <<path>>, err |-> NilErr, sawErr |-> FALSE]

\* GetFileList(path) (files, err)  (utils.go:23-40).
GetFileList(f, path, twice) ==
    LET st == Stat(f, path)
    IN  IF st.err # NilErr
        THEN [files |-> << >>, err |-> st.err, sawErr |-> FALSE]
        ELSE IF st.isDir
             THEN LET w == walk(f, path, [files |-> << >>, sawErr |-> FALSE], twice)
                  IN  IF w.ret # NilErr
                      THEN [files |-> w.files, err |-> w.ret, sawErr |-> w.sawErr]
                      ELSE [files |-> Append(w.files, path), err |-> NilErr,
                            sawErr |-> w.sawErr]
             ELSE [files |-> <<path>>, err |-> NilErr, sawErr |-> FALSE]

FopIdle(f) ==
    [op |-> "none", path |-> EmptyPath, files |-> << >>, err |-> NilErr,
     statErr |-> NilErr, sawErr |-> FALSE, before |-> f]

FSInit ==
    /\ fs \in FileSystemsOver(Paths)
    /\ fop = FopIdle(fs)

List ==
    /\ \E path \in Paths \cup {EmptyPath}, twice \in BOOLEAN :
         LET r == GetFileList(fs, path, twice)
         IN  fop' = [op |-> "GetFileList", path |-> path, files |-> r.files,
                     err |-> r.err, statErr |-> Stat(fs, path).err,
                     sawErr |-> r.sawErr, before |-> fs]
    /\ UNCHANGED fs
    /\ UNCHANGED <<lookupVars, resolveVars, nsVars, dispatchVars, fetchVars>>

Prepare ==
    /\ \E path \in Paths \cup {EmptyPath} :
         LET r == PrepareOutputDir(fs, path)
         IN  /\ fs' = r.fs
             /\ fop' = [op |-> "PrepareOutputDir", path |-> path, files |-> << >>,
                        err |-> r.err, statErr |-> Stat(fs, path).err,
                        sawErr |-> FALSE, before |-> fs]
    /\ UNCHANGED <<lookupVars, resolveVars, nsVars, dispatchVars, fetchVars>>

ListNext == List

PrepareNext == Prepare

FSNext == List \/ Prepare

(***************************************************************************)
(* The specifications, one per component.                                  *)
(***************************************************************************)
LookupQuiet   == lk = LookupIdle
ResolveQuiet  == rs = ResolveIdle
NSQuiet       == nsq = NSIdle
DispatchQuiet == receiver = << >> /\ calls = << >> /\ inv = InvIdle
FetchQuiet    == server = << >> /\ gets = 0 /\ ft = FetchIdle
FSQuiet       == fs = << >> /\ fop = FopIdle(<< >>)

InitLookup ==
    /\ LookupInit
    /\ ResolveQuiet /\ NSQuiet /\ DispatchQuiet /\ FetchQuiet /\ FSQuiet

SpecLookup == InitLookup /\ [][LookupNext]_vars

InitResolve ==
    /\ ResolveInit
    /\ LookupQuiet /\ NSQuiet /\ DispatchQuiet /\ FetchQuiet /\ FSQuiet

SpecResolve == InitResolve /\ [][ResolveNext]_vars

InitNS ==
    /\ NSInit
    /\ LookupQuiet /\ ResolveQuiet /\ DispatchQuiet /\ FetchQuiet /\ FSQuiet

SpecNS == InitNS /\ [][NSNext]_vars

InitDispatch ==
    /\ DispatchInit
    /\ LookupQuiet /\ ResolveQuiet /\ NSQuiet /\ FetchQuiet /\ FSQuiet

SpecDispatch == InitDispatch /\ [][DispatchNext]_vars

InitFetch ==
    /\ FetchInit
    /\ LookupQuiet /\ ResolveQuiet /\ NSQuiet /\ DispatchQuiet /\ FSQuiet

SpecFetch == InitFetch /\ [][FetchNext]_vars

InitFS ==
    /\ FSInit
    /\ LookupQuiet /\ ResolveQuiet /\ NSQuiet /\ DispatchQuiet /\ FetchQuiet

\* Both file-system operations, in any order.
SpecFS == InitFS /\ [][FSNext]_vars

\* GetFileList alone: it leaves the file system as it is.
SpecList == InitFS /\ [][ListNext]_vars

\* PrepareOutputDir alone, called any number of times.
SpecPrepare == InitFS /\ [][PrepareNext]_vars

(***************************************************************************)
(* Properties.                                                             *)
(***************************************************************************)
SupportedLanguages == {"Go", "TypeScript", "C", "Java", "Rust"}

\* The index the specification fixes for each language.
LanguageIndex(lang) ==
    CASE lang = "Go" -> 0
      [] lang = "TypeScript" -> 1
      [] lang = "C" -> 2
      [] lang = "Java" -> 3
      [] lang = "Rust" -> 4

\* Whether declaration d answers a lookup of name: a SimpleType that is
\* neither a list nor a union, an Attribute or an Element, of that name.
AnswersName(d, name) ==
    /\ d.Name = name
    /\ \/ d.kind = "SimpleType" /\ ~d.List /\ ~d.Union
       \/ d.kind \in {"Attribute", "Element"}

\* What an answering declaration refers to.
Reference(d) == IF d.kind = "SimpleType" THEN d.Base ELSE d.Type

QualifyingSimple(schema, name) ==
    {i \in 1..Len(schema) :
        schema[i].kind = "SimpleType" /\ AnswersName(schema[i], name)}

TypedDecls(schema, name) ==
    {i \in 1..Len(schema) :
        schema[i].kind \in {"Attribute", "Element"} /\ AnswersName(schema[i], name)}

\* C1 (as amended): ResolveBase(name, declarations) returns what the first
\* declaration in order that answers the name refers to, whichever of the
\* three kinds it is: the Base of a SimpleType of that name that is neither
\* list nor union, the Type of an Attribute or Element of that name; an
\* Attribute or Element that comes before the SimpleType wins.  With no
\* such declaration it returns name unchanged.
C1_FirstMatchWins ==
    rs.done =>
        LET hits == QualifyingSimple(rs.XSDSchema, rs.name)
                        \cup TypedDecls(rs.XSDSchema, rs.name)
        IN  IF hits = {} THEN rs.base = rs.name
            ELSE rs.base = Reference(rs.XSDSchema[Min(hits)])

\* C1, witness: an Attribute of the name stands before a qualifying
\* SimpleType of the name, and the Attribute's Type is what came back.
C1_AttributeBeforeSimpleType ==
    /\ rs.done
    /\ \E i, j \in 1..Len(rs.XSDSchema) :
         /\ i < j
         /\ rs.XSDSchema[i].kind = "Attribute"
         /\ rs.XSDSchema[i].Name = rs.name
         /\ j \in QualifyingSimple(rs.XSDSchema, rs.name)
         /\ rs.XSDSchema[i].Type # rs.XSDSchema[j].Base
         /\ rs.base = rs.XSDSchema[i].Type

\* C1 (as stated): a qualifying SimpleType anywhere in the collection takes
\* precedence over every Attribute and Element; only without one is the
\* first Attribute or Element of the name used; else name is returned.
C1_SimpleTypeHasPriority ==
    rs.done =>
        LET simple == QualifyingSimple(rs.XSDSchema, rs.name)
            typed  == TypedDecls(rs.XSDSchema, rs.name)
        IN  IF simple # {} THEN rs.base = rs.XSDSchema[Min(simple)].Base
            ELSE IF typed # {} THEN rs.base = rs.XSDSchema[Min(typed)].Type
            ELSE rs.base = rs.name

\* C2: Lookup answers found = false whenever the name is no key of the
\* table or the language is none of the five supported ones.
C2_UnknownOrUnsupportedNotFound ==
    (lk.done /\ (lk.value \notin DOMAIN BuildInTypes
                    \/ lk.lang \notin SupportedLanguages))
        => ~lk.ok

\* C4: for every key of the table and each of the five languages, Lookup
\* answers found = true and a non-empty name, the entry's spelling at the
\* language's fixed index; the entry has exactly five spellings.
C4_EveryKeyEveryLanguage ==
    (lk.done /\ lk.value \in DOMAIN BuildInTypes /\ lk.lang \in SupportedLanguages)
        => /\ lk.ok
           /\ lk.buildType # ""
           /\ Len(BuildInTypes[lk.value]) = 5
           /\ LanguageIndex(lk.lang) + 1 \in 1..Len(BuildInTypes[lk.value])
           /\ lk.buildType = BuildInTypes[lk.value][LanguageIndex(lk.lang) + 1]

\* C4, witness: a key looked up for Java came back with its fourth spelling.
C4_JavaLookupDone ==
    /\ lk.done /\ lk.ok
    /\ lk.value = "unsignedShort" /\ lk.lang = "Java"
    /\ lk.buildType = "Short"

IsXmlName(k) == Len(k) > 4 /\ SubSeq(k, 1, 4) = "xml:"

\* C9 (as amended): the built-in table a lookup consults has exactly 49
\* keys, of which exactly 4 are xml:-namespaced attribute names, and each
\* key maps to an ordered 5-tuple of (non-empty) native type spellings.
C9_FortyNineKeys ==
    lk.done =>
        /\ Cardinality(BuildInTypeNames) = 49
        /\ Cardinality({k \in BuildInTypeNames : IsXmlName(k)}) = 4
        /\ \A k \in BuildInTypeNames :
             /\ DOMAIN BuildInTypes[k] = 1..5
             /\ \A i \in 1..5 : BuildInTypes[k][i] # ""

\* C9, witness: an xml:-namespaced key of the table has been looked up and
\* found.
C9_XmlKeyFound ==
    lk.done /\ lk.ok /\ IsXmlName(lk.value) /\ lk.value \in BuildInTypeNames

\* C9 (as stated): the built-in table a lookup consults has exactly 46
\* keys, 4 of them xml:-namespaced, each mapping to a 5-tuple.
C9_FortySixKeys ==
    lk.done =>
        /\ Cardinality(BuildInTypeNames) = 46
        /\ Cardinality({k \in BuildInTypeNames : IsXmlName(k)}) = 4
        /\ \A k \in BuildInTypeNames : DOMAIN BuildInTypes[k] = 1..5

Colons(str) == {i \in 1..Len(str) : SubSeq(str, i, i) = ":"}

\* C8: a string with exactly one colon has as Prefix what stands before
\* the colon and as LocalName what stands after it, so that they join back
\* to the string; a string with no colon or with two or more has an empty
\* Prefix and itself as LocalName.
C8_PrefixAndLocalName ==
    LET str == nsq.str
        one == Cardinality(Colons(str)) = 1
        at  == Min(Colons(str))
    IN  /\ nsq.nsDone =>
              nsq.ns = IF one THEN SubSeq(str, 1, at - 1) ELSE ""
        /\ nsq.nameDone =>
              nsq.name = IF one THEN SubSeq(str, at + 1, Len(str)) ELSE str
        /\ (nsq.nsDone /\ nsq.nameDone /\ one) =>
              nsq.ns \o ":" \o nsq.name = str

\* C8, witness: both helpers have run on a string with one colon and text
\* on both sides of it.
C8_QualifiedNameSplit ==
    /\ nsq.nsDone /\ nsq.nameDone
    /\ Cardinality(Colons(nsq.str)) = 1
    /\ nsq.ns # "" /\ nsq.name # ""

\* C5: Invoke returns no error and calls nothing when the generator has no
\* method of the name; a method it has is called exactly once, with the
\* arguments given, and Invoke returns no error when the method has no
\* result or returns a nil error, and else the very error it returned.
C5_InvokeContract ==
    inv.done =>
        IF inv.name \notin DOMAIN receiver
        THEN inv.err = NilErr /\ calls = inv.before
        ELSE /\ calls = Append(inv.before, [name |-> inv.name, params |-> inv.params])
             /\ (receiver[inv.name].results = 0 \/ receiver[inv.name].ret = NilErr)
                    => inv.err = NilErr
             /\ (receiver[inv.name].results = 1 /\ receiver[inv.name].ret # NilErr)
                    => inv.err = receiver[inv.name].ret

\* C5, witness: a method with an error result was called once and its
\* error came back.
C5_ErrorPropagated ==
    /\ inv.done
    /\ inv.name \in DOMAIN receiver
    /\ receiver[inv.name].ret \in MethodErrors
    /\ inv.err = receiver[inv.name].ret
    /\ Len(calls) = Len(inv.before) + 1

\* C7: Fetch issues exactly one GET; it returns the response body only on
\* status 200; any other status gives an empty body and no error; a
\* request that fails gives an empty body and the transport's error.
C7_FetchContract ==
    ft.done =>
        LET answer == server[ft.url]
        IN  /\ gets = ft.getsBefore + 1
            /\ answer.kind = "fail" => (ft.body = "" /\ ft.err = answer.err)
            /\ (answer.kind = "resp" /\ answer.status # 200)
                   => (ft.body = "" /\ ft.err = NilErr)
            /\ (answer.kind = "resp" /\ answer.status = 200 /\ answer.readErr = NilErr)
                   => (ft.body = answer.payload /\ ft.err = NilErr)
            /\ ft.body # "" => (answer.kind = "resp" /\ answer.status = 200)

\* C7, witness: a 404 response that carries a payload was fetched, and
\* came back as an empty body without an error.
C7_NotFoundIsEmptySuccess ==
    /\ ft.done
    /\ server[ft.url].kind = "resp"
    /\ server[ft.url].status = 404
    /\ server[ft.url].payload # ""
    /\ ft.body = "" /\ ft.err = NilErr

\* The entries that exist beneath directory p.
Beneath(f, p) ==
    {q \in Paths : Len(q) > Len(p) /\ SubSeq(q, 1, Len(p)) = p /\ f[q] # "none"}

NamePosition(n) == CHOOSE i \in 1..Len(NameOrder) : NameOrder[i] = n

\* Traversal order of two different paths beneath one root: a directory
\* before what it holds, and the entries of a directory by name.
VisitedBefore(a, b) ==
    \/ Len(a) < Len(b) /\ SubSeq(b, 1, Len(a)) = a
    \/ \E i \in 1..Min({Len(a), Len(b)}) :
         /\ SubSeq(a, 1, i - 1) = SubSeq(b, 1, i - 1)
         /\ a[i] # b[i]
         /\ NamePosition(a[i]) < NamePosition(b[i])

ListedDirectory ==
    /\ fop.op = "GetFileList"
    /\ fop.statErr = NilErr
    /\ fop.before[fop.path] \in DirKinds

\* C3 (as amended): for a directory dirPath, List(dirPath) returns the root
\* path first, then the entries beneath it in traversal order, then the
\* root path once more: [dirPath, A, B, dirPath] when the walk visits A
\* then B beneath it.  The root stands at the head and at the end.
C3_RootFirstAndLast ==
    ListedDirectory =>
        LET files == fop.files
            n     == Len(files)
            below == Beneath(fop.before, fop.path)
        IN  /\ fop.err = NilErr
            /\ n >= 2
            /\ files[1] = fop.path
            /\ files[n] = fop.path
            /\ {files[i] : i \in 2..(n - 1)} \subseteq below \cup {fop.path}
            /\ ~fop.sawErr =>
                 /\ n = Cardinality(below) + 2
                 /\ {files[i] : i \in 2..(n - 1)} = below
                 /\ \A i, j \in 2..(n - 1) :
                      i < j => VisitedBefore(files[i], files[j])

\* C3, witness: directory d holding exactly A and B was listed, and the
\* list is d, d/A, d/B, d.
C3_ListedDirWithAB ==
    /\ ListedDirectory
    /\ fop.path = <<"d">>
    /\ Beneath(fop.before, fop.path) = {<<"d", "A">>, <<"d", "B">>}
    /\ fop.files = << <<"d">>, <<"d", "A">>, <<"d", "B">>, <<"d">> >>

\* C3 (as stated): for a directory whose walk visits entries A then B
\* beneath it, List returns exactly [A, B, dirPath]: the root path last and
\* not at the head.
C3_RootOnlyLast ==
    (/\ ListedDirectory
     /\ ~fop.sawErr
     /\ Beneath(fop.before, fop.path)
            = {Append(fop.path, "A"), Append(fop.path, "B")})
        => fop.files = <<Append(fop.path, "A"), Append(fop.path, "B"), fop.path>>

Prepared == fop.op = "PrepareOutputDir"

\* The prefixes of path p, p itself among them.
Prefixes(p) == {SubSeq(p, 1, i) : i \in 1..Len(p)}

\* Whether the missing directories of p can be made in f: what exists of
\* p's ancestors is directories, and the deepest of them (the working
\* directory when none exists) can be written.
CanCreate(f, p) ==
    LET missing == {i \in 1..Len(p) : f[SubSeq(p, 1, i)] = "none"}
        first   == Min(missing)
    IN  /\ missing # {}
        /\ \A i \in 1..(first - 1) : f[SubSeq(p, 1, i)] \in Searchable
        /\ first > 1 => f[SubSeq(p, 1, first - 1)] = "dir"

WithDirectories(f, p) ==
    [q \in Paths |-> IF q \in Prefixes(p) /\ f[q] = "none" THEN "dir" ELSE f[q]]

C6_CallInvariant ==
    Prepared =>
        LET b == fop.before
            p == fop.path
        IN  /\ \A q \in Paths : b[q] # "none" => fs[q] = b[q]
            /\ p = EmptyPath => (fop.err = NilErr /\ fs = b)
            /\ (p # EmptyPath /\ fop.statErr = NilErr)
                   => (fop.err = NilErr /\ fs = b)
            /\ (p # EmptyPath /\ fop.statErr = ENOENT /\ CanCreate(b, p))
                   => (fop.err = NilErr /\ fs = WithDirectories(b, p))
            /\ (p # EmptyPath /\ fop.statErr = ENOENT /\ ~CanCreate(b, p))
                   => (fop.err # NilErr /\ fs = b)
            /\ (p # EmptyPath /\ fop.statErr \notin {NilErr, ENOENT})
                   => (fop.err = NilErr /\ fs = b)

C6_CalledAgain ==
    (/\ Prepared /\ fop.err = NilErr
     /\ fop'.op = "PrepareOutputDir" /\ fop'.path = fop.path)
        => (fs' = fs /\ fop'.err = NilErr)

C10_FailuresSurface ==
    /\ (fop.op = "GetFileList" /\ fop.sawErr) => fop.err # NilErr
    /\ (Prepared /\ fop.statErr \notin {NilErr, ENOENT}) => fop.err # NilErr

====
